---- MODULE Spec2Model ----
(***************************************************************************)
(* Model of lambda_function.py (arimax/legabot): a request handler that    *)
(* fills a PDF form template (fill_pdf), marks its fields read-only        *)
(* (set_fields_readonly), shows or removes widgets (set_button_visibility) *)
(* and publishes the result (lambda_handler).                              *)
(*                                                                         *)
(* A document is the object graph pdfrw hands to the code: a sequence of   *)
(* pages, each with an optional /Annots array of annotation dictionaries,  *)
(* and the catalog's optional /AcroForm dictionary.  Optional entries are  *)
(* sequences of length 0 (absent) or 1 (present).  Python strings the code *)
(* slices are sequences of characters; strings it only copies are TLA+     *)
(* strings.                                                                *)
(***************************************************************************)
EXTENDS Integers, Sequences, FiniteSets, TLC

VARIABLES
    pc,        \* position of lambda_handler, or of the single call in SpecCalls
    body,      \* json.loads(event['body']): field name -> JSON value
    bucket,    \* the S3 bucket: object key -> file
    tmp,       \* the files under /tmp: path -> file
    response,  \* what lambda_handler returned (None until it returns)
    url,       \* the presigned URL generated (None until then)
    error,     \* the exception that ended the invocation or the call (None if none)
    call       \* SpecCalls only: the function called and its arguments

vars == <<pc, body, bucket, tmp, response, url, error, call>>

----------------------------------------------------------------------------
(* Bounds of the model. *)

\* Pages of a template.
MaxPages == 2

\* Annotations of a template, over all its pages.
MaxAnnots == 2

----------------------------------------------------------------------------
(* Python values. *)

None == <<>>

Some(x) == <<x>>

\* Field names, as Python strings (sequences of characters).
NAME == <<"n", "a", "m", "e">>

SIGNATURE == <<"s", "i", "g", "n", "a", "t", "u", "r", "e">>

TEMPLATE_PATH == <<"t", "e", "m", "p", "l", "a", "t", "e", "_", "p", "a", "t", "h">>

VISIBILITY_MAP == <<"v", "i", "s", "i", "b", "i", "l", "i", "t", "y", "_", "m", "a", "p">>

\* A name no template has.
STRANGER == <<"x">>

\* The characters of s as one TLA+ string.
RECURSIVE Join(_)
Join(s) == IF s = <<>> THEN "" ELSE Head(s) \o Join(Tail(s))

\* JSON values of a request body.
JStr(s) == [t |-> "str", s |-> s]

JInt(n) == [t |-> "int", n |-> n]

JBool(b) == [t |-> "bool", b |-> b]

\* A JSON object whose values are booleans, as Python keeps it: field name ->
\* boolean, in insertion order.
JDict(items) == [t |-> "dict", items |-> items]

Item(k, v) == [k |-> k, v |-> v]

\* key in d, d[key] for a dict value.
DictHas(d, key) == \E i \in DOMAIN d.items : d.items[i].k = key

DictGet(d, key) == d.items[CHOOSE i \in DOMAIN d.items : d.items[i].k = key].v

PyBool(b) == IF b THEN "True" ELSE "False"

\* repr of the items of a dict from position i on.
RECURSIVE ReprItems(_, _)
ReprItems(items, i) ==
    IF i > Len(items) THEN ""
    ELSE "'" \o Join(items[i].k) \o "': " \o PyBool(items[i].v)
         \o (IF i < Len(items) THEN ", " ELSE "")
         \o ReprItems(items, i + 1)

\* str(v) of Python, for the JSON values above.
Str(v) ==
    CASE v.t = "str" -> v.s
      [] v.t = "int" -> ToString(v.n)
      [] v.t = "bool" -> PyBool(v.b)
      [] v.t = "dict" -> "{" \o ReprItems(v.items, 1) \o "}"

\* a | b on non-negative Python integers.
RECURSIVE BitOr(_, _)
BitOr(a, b) ==
    IF a = 0 THEN b
    ELSE IF b = 0 THEN a
    ELSE (IF a % 2 = 1 \/ b % 2 = 1 THEN 1 ELSE 0) + 2 * BitOr(a \div 2, b \div 2)

\* The read-only bit of /Ff.
READONLY == 1

----------------------------------------------------------------------------
(* PDF objects as pdfrw reads them. *)

\* A PDF literal string object keeps its delimiters in pdfrw.
PdfString(chars) == <<"(">> \o chars \o <<")">>

Annot(subtype, t, ff, f, v) ==
    [Subtype |-> subtype, T |-> t, Ff |-> ff, F |-> f, V |-> v, AS |-> v]

\* The annotations templates are built from.
Annotations ==
    { Annot("Widget", Some(PdfString(NAME)), None, None, None),
      Annot("Widget", Some(PdfString(NAME)), Some(4), Some(2), Some("old")),
      Annot("Widget", Some(PdfString(SIGNATURE)), Some(0), Some(0), None),
      Annot("Widget", Some(PdfString(SIGNATURE)), Some(1), Some(6), Some("Off")),
      Annot("Widget", None, Some(4), Some(2), Some("old")),
      Annot("Link", Some(PdfString(NAME)), None, Some(4), None) }

\* The /AcroForm dictionaries: absent, <<>> (empty), /Fields only, and
\* /Fields with /NeedAppearances false.
AcroDict(fields, need) == [Fields |-> fields, NeedAppearances |-> need]

AcroForms ==
    { None,
      Some(AcroDict(FALSE, None)),
      Some(AcroDict(TRUE, None)),
      Some(AcroDict(TRUE, Some("false"))) }

\* Sequences over S of length exactly n.
SeqsOfLen(S, n) == [1..n -> S]

\* A page with no /Annots, and a page whose /Annots is the array a.
NoAnnots == [Annots |-> None]

PageOf(a) == [Annots |-> Some(a)]

\* Pages carrying exactly n annotations drawn from A (both a missing and an
\* empty /Annots carry none).
PagesWith(A, n) ==
    IF n = 0 THEN {NoAnnots, PageOf(<<>>)}
    ELSE {PageOf(a) : a \in SeqsOfLen(A, n)}

\* Page sequences of length p carrying at most n annotations in all.
RECURSIVE PageSeqs(_, _, _)
PageSeqs(A, p, n) ==
    IF p = 0 THEN {<<>>}
    ELSE UNION {{<<pg>> \o rest : pg \in PagesWith(A, k), rest \in PageSeqs(A, p - 1, n - k)}
                : k \in 0..n}

\* Documents of at most MaxPages pages and MaxAnnots annotations.
Docs(A, acros) ==
    {[pages |-> ps, AcroForm |-> af] :
        ps \in UNION {PageSeqs(A, p, MaxAnnots) : p \in 0..MaxPages}, af \in acros}

----------------------------------------------------------------------------
(* The three document functions. *)

\* Python truth of a sequence, a string or a dict read from the PDF.
TruthyAcro(af) == af # None /\ (af[1].Fields \/ af[1].NeedAppearances # None)

\* annot['/Subtype'] == PdfName.Widget and annot.get('/T')
IsField(annot) == annot.Subtype = "Widget" /\ annot.T # None /\ annot.T[1] # <<>>

\* key = annot['/T'][1:-1]
Key(annot) == SubSeq(annot.T[1], 2, Len(annot.T[1]) - 1)

\* if pdf.Root.AcroForm: pdf.Root.AcroForm.update(PdfDict(NeedAppearances=PdfObject('true')))
NeedAppearances(af) ==
    IF TruthyAcro(af) THEN Some([af[1] EXCEPT !.NeedAppearances = Some("true")]) ELSE af

\* The annotations the loops visit on a page: none when /Annots is missing or
\* empty (if not annots: continue).
Visited(page) == IF page.Annots = None THEN <<>> ELSE page.Annots[1]

\* A faulty FillAnnot, to test the properties against: the display value is left alone.
FillAnnotValueOnly(annot, data) ==
    IF IsField(annot) /\ Key(annot) \in DOMAIN data
    THEN [annot EXCEPT !.V = Some(Str(data[Key(annot)]))]
    ELSE annot

FillAnnot(annot, data) ==
    IF IsField(annot) /\ Key(annot) \in DOMAIN data
    THEN [annot EXCEPT !.V = Some(Str(data[Key(annot)])),
                       !.AS = Some(Str(data[Key(annot)]))]
    ELSE annot

FillPage(page, data) ==
    IF Visited(page) = <<>> THEN page
    ELSE PageOf([i \in DOMAIN Visited(page) |-> FillAnnot(Visited(page)[i], data)])

fill_pdf(template, data) ==
    [pages |-> [p \in DOMAIN template.pages |-> FillPage(template.pages[p], data)],
     AcroForm |-> NeedAppearances(template.AcroForm)]

\* A faulty LockAnnot, to test the properties against: the flags are overwritten, not or-ed.
LockAnnotOverwrites(annot, fields) ==
    IF IsField(annot) /\ (fields = None \/ Key(annot) \in fields[1])
    THEN [annot EXCEPT !.Ff = Some(READONLY)]
    ELSE annot

\* fields is None or a list of names (here the set of its elements).
LockAnnot(annot, fields) ==
    IF IsField(annot) /\ (fields = None \/ Key(annot) \in fields[1])
    THEN LET flags == IF annot.Ff # None THEN annot.Ff[1] ELSE 0
         IN  [annot EXCEPT !.Ff = Some(BitOr(flags, READONLY))]
    ELSE annot

LockPage(page, fields) ==
    IF Visited(page) = <<>> THEN page
    ELSE PageOf([i \in DOMAIN Visited(page) |-> LockAnnot(Visited(page)[i], fields)])

set_fields_readonly(pdf, fields) ==
    [pages |-> [p \in DOMAIN pdf.pages |-> LockPage(pdf.pages[p], fields)],
     AcroForm |-> NeedAppearances(pdf.AcroForm)]

\* visibility_map is None or a dict.  `key in visibility_map` raises TypeError
\* on None; the loops reach it at the first named Widget they visit.
VisibilityRaises(pdf, visibility_map) ==
    /\ visibility_map = None
    /\ \E p \in DOMAIN pdf.pages :
         \E i \in DOMAIN Visited(pdf.pages[p]) : IsField(Visited(pdf.pages[p])[i])

\* A faulty NewAnnots, to test the properties against: a widget mapped to false is kept and flagged hidden.
RECURSIVE NewAnnotsHides(_, _)
NewAnnotsHides(annots, visibility_map) ==
    IF annots = <<>> THEN <<>>
    ELSE LET annot == Head(annots)
             rest == NewAnnotsHides(Tail(annots), visibility_map)
         IN  IF IsField(annot) /\ DictHas(visibility_map[1], Key(annot))
             THEN IF DictGet(visibility_map[1], Key(annot))
                  THEN <<[annot EXCEPT !.F = Some(0)]>> \o rest
                  ELSE <<[annot EXCEPT !.F = Some(2)]>> \o rest
             ELSE <<annot>> \o rest

\* A faulty NewAnnots, to test the properties against: showing a widget clears its field flags too.
RECURSIVE NewAnnotsClearsFieldFlags(_, _)
NewAnnotsClearsFieldFlags(annots, visibility_map) ==
    IF annots = <<>> THEN <<>>
    ELSE LET annot == Head(annots)
             rest == NewAnnotsClearsFieldFlags(Tail(annots), visibility_map)
         IN  IF IsField(annot) /\ DictHas(visibility_map[1], Key(annot))
             THEN IF DictGet(visibility_map[1], Key(annot))
                  THEN <<[annot EXCEPT !.F = Some(0), !.Ff = Some(0)]>> \o rest
                  ELSE rest
             ELSE <<annot>> \o rest

\* new_annots of one page, for a dict visibility_map (or for None, when the page
\* has no named Widget, so that the map is never looked at).
RECURSIVE NewAnnots(_, _)
NewAnnots(annots, visibility_map) ==
    IF annots = <<>> THEN <<>>
    ELSE LET annot == Head(annots)
             rest == NewAnnots(Tail(annots), visibility_map)
         IN  IF IsField(annot) /\ DictHas(visibility_map[1], Key(annot))
             THEN IF DictGet(visibility_map[1], Key(annot))
                  THEN <<[annot EXCEPT !.F = Some(0)]>> \o rest
                  ELSE rest
             ELSE <<annot>> \o rest

\* A faulty VisibilityPage, to test the properties against: an emptied list is stored as it is.
VisibilityPageKeepsEmpty(page, visibility_map) ==
    IF Visited(page) = <<>> THEN page
    ELSE PageOf(NewAnnots(Visited(page), visibility_map))

VisibilityPage(page, visibility_map) ==
    IF Visited(page) = <<>> THEN page
    ELSE LET new_annots == NewAnnots(Visited(page), visibility_map)
         IN  IF new_annots # <<>> THEN PageOf(new_annots) ELSE NoAnnots

\* The document written when the call does not raise.
set_button_visibility(pdf, visibility_map) ==
    [pages |-> [p \in DOMAIN pdf.pages |-> VisibilityPage(pdf.pages[p], visibility_map)],
     AcroForm |-> NeedAppearances(pdf.AcroForm)]

----------------------------------------------------------------------------
(* Files. *)

\* A file holding the PDF document d, and a file that is no PDF.
PdfFile(d) == [pdf |-> TRUE, doc |-> d]

Corrupt == [pdf |-> FALSE]

\* PdfWriter().write(path, pdf)
Write(files, path, d) == (path :> PdfFile(d)) @@ files

----------------------------------------------------------------------------
(* SpecCalls: one call of one of the three functions on a template. *)

\* A dict from an optional entry.
Entry(k, opt) == IF opt = None THEN <<>> ELSE (k :> opt[1])

DataMaps ==
    { <<>>,
      Entry(NAME, Some(JStr("Alice"))),
      Entry(NAME, Some(JInt(7))) @@ Entry(STRANGER, Some(JStr("x"))),
      Entry(SIGNATURE, Some(JBool(TRUE))) }

FieldLists == {None, Some({}), Some({NAME}), Some({SIGNATURE, STRANGER})}

VisibilityMaps ==
    { None,
      Some(JDict(<<>>)),
      Some(JDict(<<Item(NAME, TRUE)>>)),
      Some(JDict(<<Item(SIGNATURE, FALSE)>>)),
      Some(JDict(<<Item(NAME, FALSE), Item(SIGNATURE, TRUE), Item(STRANGER, FALSE)>>)) }

Calls ==
    {[fn |-> "fill_pdf", data |-> d] : d \in DataMaps}
    \cup {[fn |-> "set_fields_readonly", fields |-> f] : f \in FieldLists}
    \cup {[fn |-> "set_button_visibility", visibility_map |-> m] : m \in VisibilityMaps}

InitCalls ==
    /\ pc = "called"
    /\ call \in Calls
    /\ \E d \in Docs(Annotations, AcroForms) : tmp = ("in.pdf" :> PdfFile(d))
    /\ body = <<>>
    /\ bucket = <<>>
    /\ response = None
    /\ url = None
    /\ error = None

CallFill ==
    /\ pc = "called"
    /\ call.fn = "fill_pdf"
    /\ tmp' = Write(tmp, "out.pdf", fill_pdf(tmp["in.pdf"].doc, call.data))
    /\ pc' = "returned"
    /\ UNCHANGED <<body, bucket, response, url, error, call>>

CallLock ==
    /\ pc = "called"
    /\ call.fn = "set_fields_readonly"
    /\ tmp' = Write(tmp, "out.pdf", set_fields_readonly(tmp["in.pdf"].doc, call.fields))
    /\ pc' = "returned"
    /\ UNCHANGED <<body, bucket, response, url, error, call>>

CallVisibility ==
    /\ pc = "called"
    /\ call.fn = "set_button_visibility"
    /\ ~VisibilityRaises(tmp["in.pdf"].doc, call.visibility_map)
    /\ tmp' = Write(tmp, "out.pdf",
                    set_button_visibility(tmp["in.pdf"].doc, call.visibility_map))
    /\ pc' = "returned"
    /\ UNCHANGED <<body, bucket, response, url, error, call>>

CallVisibilityRaises ==
    /\ pc = "called"
    /\ call.fn = "set_button_visibility"
    /\ VisibilityRaises(tmp["in.pdf"].doc, call.visibility_map)
    /\ pc' = "raised"
    /\ error' = Some("TypeError")
    /\ UNCHANGED <<body, bucket, tmp, response, url, call>>

NextCalls == CallFill \/ CallLock \/ CallVisibility \/ CallVisibilityRaises

SpecCalls == InitCalls /\ [][NextCalls]_vars

----------------------------------------------------------------------------
(* Spec: one invocation of lambda_handler. *)

BUCKET_NAME == "2025-leagabot-1"

TEMPLATE_KEY == "input/test.pdf"

\* Another template of the bucket, and a key the bucket does not hold.
OTHER_KEY == "input/other.pdf"

MISSING_KEY == "input/missing.pdf"

\* f'output/{uuid.uuid4()}.pdf': a key no other object has.
OUTPUT_KEY == "output/uuid4.pdf"

\* ExpiresIn of the presigned URL.
EXPIRES_IN == 3600

\* d.get(key): None when the key is missing.
Get(d, key) == IF key \in DOMAIN d THEN Some(d[key]) ELSE None

\* The annotations of the templates in the bucket.
TemplateAnnotations ==
    { Annot("Widget", Some(PdfString(NAME)), None, None, None),
      Annot("Widget", Some(PdfString(SIGNATURE)), Some(0), Some(0), None),
      Annot("Widget", Some(PdfString(TEMPLATE_PATH)), Some(4), Some(2), Some("old")),
      Annot("Widget", Some(PdfString(VISIBILITY_MAP)), None, Some(4), None),
      Annot("Link", Some(PdfString(NAME)), None, Some(4), None) }

TemplateAcroForms == {None, Some(AcroDict(TRUE, None))}

\* The template stored under OTHER_KEY.
OtherTemplate ==
    [pages |-> <<PageOf(<<Annot("Widget", Some(PdfString(TEMPLATE_PATH)), None, None, None)>>)>>,
     AcroForm |-> Some(AcroDict(TRUE, None))]

\* The request bodies.
Bodies ==
    { <<>>,
      Entry(NAME, Some(JStr("Alice"))),
      Entry(NAME, Some(JStr("Alice")))
          @@ Entry(VISIBILITY_MAP, Some(JDict(<<Item(SIGNATURE, FALSE)>>))),
      Entry(NAME, Some(JInt(7)))
          @@ Entry(VISIBILITY_MAP, Some(JDict(<<Item(NAME, TRUE), Item(TEMPLATE_PATH, TRUE)>>))),
      Entry(TEMPLATE_PATH, Some(JStr(OTHER_KEY)))
          @@ Entry(VISIBILITY_MAP, Some(JDict(<<>>))),
      Entry(TEMPLATE_PATH, Some(JStr(MISSING_KEY))),
      Entry(TEMPLATE_PATH, Some(JStr(TEMPLATE_KEY)))
          @@ Entry(VISIBILITY_MAP,
                   Some(JDict(<<Item(NAME, FALSE), Item(SIGNATURE, TRUE),
                                Item(VISIBILITY_MAP, TRUE)>>))),
      Entry(SIGNATURE, Some(JBool(FALSE)))
          @@ Entry(VISIBILITY_MAP, Some(JDict(<<Item(STRANGER, FALSE)>>))) }

TemplateFiles ==
    {PdfFile(d) : d \in Docs(TemplateAnnotations, TemplateAcroForms)} \cup {Corrupt}

Init ==
    /\ pc = "start"
    /\ body \in Bodies
    /\ \E f \in TemplateFiles :
         bucket = (TEMPLATE_KEY :> f) @@ (OTHER_KEY :> PdfFile(OtherTemplate))
    /\ tmp = <<>>
    /\ response = None
    /\ url = None
    /\ error = None
    /\ call = None

\* template_path = body.get('template_path', TEMPLATE_KEY)
template_path == IF TEMPLATE_PATH \in DOMAIN body THEN body[TEMPLATE_PATH].s ELSE TEMPLATE_KEY

\* s3.download_file(BUCKET_NAME, template_path, input_pdf_path)
Download ==
    /\ pc = "start"
    /\ template_path \in DOMAIN bucket
    /\ tmp' = ("/tmp/template.pdf" :> bucket[template_path]) @@ tmp
    /\ pc' = "downloaded"
    /\ UNCHANGED <<body, bucket, response, url, error, call>>

\* ... which raises ClientError when the bucket holds no such key.
DownloadFails ==
    /\ pc = "start"
    /\ template_path \notin DOMAIN bucket
    /\ pc' = "failed"
    /\ error' = Some("ClientError")
    /\ UNCHANGED <<body, bucket, tmp, response, url, call>>

\* A faulty Fill, to test the properties against: the control keys are taken out of the data map.
FillFieldDataOnly ==
    /\ pc = "downloaded"
    /\ tmp["/tmp/template.pdf"].pdf
    /\ tmp' = Write(tmp, "/tmp/filled.pdf",
                    fill_pdf(tmp["/tmp/template.pdf"].doc,
                             [k \in DOMAIN body \ {TEMPLATE_PATH, VISIBILITY_MAP} |-> body[k]]))
    /\ pc' = "filled"
    /\ UNCHANGED <<body, bucket, response, url, error, call>>

\* fill_pdf(input_pdf_path, filled_pdf_path, body)
Fill ==
    /\ pc = "downloaded"
    /\ tmp["/tmp/template.pdf"].pdf
    /\ tmp' = Write(tmp, "/tmp/filled.pdf", fill_pdf(tmp["/tmp/template.pdf"].doc, body))
    /\ pc' = "filled"
    /\ UNCHANGED <<body, bucket, response, url, error, call>>

\* ... whose PdfReader raises on a file that is no PDF.
FillFails ==
    /\ pc = "downloaded"
    /\ ~tmp["/tmp/template.pdf"].pdf
    /\ pc' = "failed"
    /\ error' = Some("PdfParseError")
    /\ UNCHANGED <<body, bucket, tmp, response, url, call>>

\* set_fields_readonly(filled_pdf_path, locked_pdf_path)
Lock ==
    /\ pc = "filled"
    /\ tmp' = Write(tmp, "/tmp/locked.pdf",
                    set_fields_readonly(tmp["/tmp/filled.pdf"].doc, None))
    /\ pc' = "locked"
    /\ UNCHANGED <<body, bucket, response, url, error, call>>

\* A faulty Visibility, to test the properties against: the stage reads the Filler's file, not the Locker's.
VisibilityReadsFilled ==
    /\ pc = "locked"
    /\ ~VisibilityRaises(tmp["/tmp/locked.pdf"].doc, Get(body, VISIBILITY_MAP))
    /\ tmp' = Write(tmp, "/tmp/visibility.pdf",
                    set_button_visibility(tmp["/tmp/filled.pdf"].doc,
                                          Get(body, VISIBILITY_MAP)))
    /\ pc' = "visible"
    /\ UNCHANGED <<body, bucket, response, url, error, call>>

\* A faulty VisibilityFails, to test the properties against: the failing stage's input is uploaded all the same.
VisibilityFailsAfterUpload ==
    /\ pc = "locked"
    /\ VisibilityRaises(tmp["/tmp/locked.pdf"].doc, Get(body, VISIBILITY_MAP))
    /\ bucket' = (OUTPUT_KEY :> tmp["/tmp/locked.pdf"]) @@ bucket
    /\ pc' = "failed"
    /\ error' = Some("TypeError")
    /\ UNCHANGED <<body, tmp, response, url, call>>

\* visibility_map = body.get('visibility_map')
\* set_button_visibility(locked_pdf_path, visibility_pdf_path, visibility_map)
Visibility ==
    /\ pc = "locked"
    /\ ~VisibilityRaises(tmp["/tmp/locked.pdf"].doc, Get(body, VISIBILITY_MAP))
    /\ tmp' = Write(tmp, "/tmp/visibility.pdf",
                    set_button_visibility(tmp["/tmp/locked.pdf"].doc,
                                          Get(body, VISIBILITY_MAP)))
    /\ pc' = "visible"
    /\ UNCHANGED <<body, bucket, response, url, error, call>>

\* ... which raises TypeError when the body has no visibility_map and the
\* document has a named Widget.
VisibilityFails ==
    /\ pc = "locked"
    /\ VisibilityRaises(tmp["/tmp/locked.pdf"].doc, Get(body, VISIBILITY_MAP))
    /\ pc' = "failed"
    /\ error' = Some("TypeError")
    /\ UNCHANGED <<body, bucket, tmp, response, url, call>>

\* s3.upload_file(visibility_pdf_path, BUCKET_NAME, output_key)
Upload ==
    /\ pc = "visible"
    /\ bucket' = (OUTPUT_KEY :> tmp["/tmp/visibility.pdf"]) @@ bucket
    /\ pc' = "uploaded"
    /\ UNCHANGED <<body, tmp, response, url, error, call>>

\* url = s3.generate_presigned_url(...)
Sign ==
    /\ pc = "uploaded"
    /\ url' = Some([Bucket |-> BUCKET_NAME, Key |-> OUTPUT_KEY, ExpiresIn |-> EXPIRES_IN])
    /\ pc' = "signed"
    /\ UNCHANGED <<body, bucket, tmp, response, error, call>>

\* return {'statusCode': 200, 'body': json.dumps({'url': url})}
Return ==
    /\ pc = "signed"
    /\ response' = Some([statusCode |-> 200, body |-> [url |-> url[1]]])
    /\ pc' = "done"
    /\ UNCHANGED <<body, bucket, tmp, url, error, call>>

Next ==
    \/ Download \/ DownloadFails
    \/ Fill \/ FillFails
    \/ Lock
    \/ Visibility \/ VisibilityFails
    \/ Upload
    \/ Sign
    \/ Return

Spec == Init /\ [][Next]_vars

----------------------------------------------------------------------------
(* Vocabulary of the properties.  Field names are read off the PDF string   *)
(* itself, not through Key.                                                 *)

Names == {NAME, SIGNATURE, TEMPLATE_PATH, VISIBILITY_MAP, STRANGER}

\* annot is a Widget whose field name is the non-empty name n.
NamedWidget(annot, n) ==
    annot.Subtype = "Widget" /\ n # <<>> /\ annot.T = Some(PdfString(n))

\* A page's annotation list (empty when the page has no such attribute).
AnnotList(page) == IF page.Annots = None THEN <<>> ELSE page.Annots[1]

\* Bit 0 of the field flags, absent flags read as 0.
FlagsOf(annot) == IF annot.Ff = None THEN 0 ELSE annot.Ff[1]

ReadOnlyBit(annot) == FlagsOf(annot) % 2 = 1

\* The two documents have the same pages with as many annotations each, and the
\* same pages lack the annotation-list attribute.
SameShape(d, e) ==
    /\ Len(d.pages) = Len(e.pages)
    /\ \A p \in DOMAIN d.pages :
         /\ (d.pages[p].Annots = None) <=> (e.pages[p].Annots = None)
         /\ Len(AnnotList(d.pages[p])) = Len(AnnotList(e.pages[p]))

\* The visibility map vm (None or a dict) maps the name n to the boolean b.
MapsTo(vm, n, b) == vm # None /\ DictHas(vm[1], n) /\ DictGet(vm[1], n) = b

\* annot is a named Widget the map vm maps to b.
Mapped(annot, vm, b) == \E n \in Names : NamedWidget(annot, n) /\ MapsTo(vm, n, b)

\* SpecCalls: the document given to the call and the one it wrote.
In == tmp["in.pdf"].doc

Out == tmp["out.pdf"].doc

Returned(fn) == pc = "returned" /\ call.fn = fn

----------------------------------------------------------------------------
(* C1: fill_pdf.  After filling, every Widget with a non-empty field name  *)
(* that is a key of the data map has V and AS equal to the string form of  *)
(* the submitted value; every other annotation is unchanged; data keys     *)
(* that match no widget raise nothing (the call returns).                  *)
C1_FillSetsValueAndDisplay ==
    /\ (call # None /\ call.fn = "fill_pdf") => pc # "raised"
    /\ Returned("fill_pdf") =>
         /\ SameShape(In, Out)
         /\ \A p \in DOMAIN In.pages : \A i \in DOMAIN AnnotList(In.pages[p]) :
              LET a == AnnotList(In.pages[p])[i]
                  b == AnnotList(Out.pages[p])[i]
              IN  IF \E n \in DOMAIN call.data : NamedWidget(a, n)
                  THEN \A n \in DOMAIN call.data :
                         NamedWidget(a, n) =>
                           b = [a EXCEPT !.V = Some(Str(call.data[n])),
                                         !.AS = Some(Str(call.data[n]))]
                  ELSE b = a

\* C1 witness: the name widget took the string form "7" of the number 7, a
\* signature widget kept its value, and the data key x matched no widget.
C1_Witness ==
    /\ Returned("fill_pdf")
    /\ STRANGER \in DOMAIN call.data
    /\ \E p \in DOMAIN Out.pages : \E i \in DOMAIN AnnotList(Out.pages[p]) :
         LET b == AnnotList(Out.pages[p])[i]
         IN  NamedWidget(b, NAME) /\ b.V = Some("7") /\ b.AS = Some("7")
             /\ AnnotList(In.pages[p])[i].V = Some("old")
    /\ \E p \in DOMAIN Out.pages : \E i \in DOMAIN AnnotList(Out.pages[p]) :
         LET b == AnnotList(Out.pages[p])[i]
         IN  NamedWidget(b, SIGNATURE) /\ b.V = Some("Off")

----------------------------------------------------------------------------
(* C2: set_fields_readonly.  With fields = None every Widget with a        *)
(* non-empty field name has bit 0 of its flags set and every other bit as  *)
(* before (absent flags read as 0); with a list of names only the widgets  *)
(* whose name is in the list change, the same way; names that match no     *)
(* widget raise nothing.                                                   *)
C2_LockSetsReadOnlyBit ==
    /\ (call # None /\ call.fn = "set_fields_readonly") => pc # "raised"
    /\ Returned("set_fields_readonly") =>
         /\ SameShape(In, Out)
         /\ \A p \in DOMAIN In.pages : \A i \in DOMAIN AnnotList(In.pages[p]) :
              LET a == AnnotList(In.pages[p])[i]
                  b == AnnotList(Out.pages[p])[i]
                  chosen == \E n \in Names :
                              /\ NamedWidget(a, n)
                              /\ call.fields = None \/ n \in call.fields[1]
              IN  IF chosen
                  THEN /\ b.Ff # None
                       /\ b.Ff[1] % 2 = 1
                       /\ b.Ff[1] \div 2 = FlagsOf(a) \div 2
                       /\ [b EXCEPT !.Ff = a.Ff] = a
                  ELSE b = a

\* C2 witness: locking all fields turned flags 4 into 5 and absent flags into 1.
C2_Witness ==
    /\ Returned("set_fields_readonly")
    /\ call.fields = None
    /\ \E p \in DOMAIN Out.pages : \E i, j \in DOMAIN AnnotList(Out.pages[p]) :
         /\ AnnotList(In.pages[p])[i].Ff = Some(4)
         /\ AnnotList(Out.pages[p])[i].Ff = Some(5)
         /\ AnnotList(In.pages[p])[j].Ff = None
         /\ AnnotList(Out.pages[p])[j].Ff = Some(1)

----------------------------------------------------------------------------
(* C3: set_button_visibility.  A named Widget whose field name is a key of *)
(* the visibility map is not in its page's annotation list afterwards when *)
(* the mapped value is false, and is in it with annotation flags 0 when    *)
(* the value is true; every other annotation is retained unchanged, in     *)
(* order.                                                                  *)
C3_VisibilityShowsAndRemoves ==
    Returned("set_button_visibility") =>
      /\ Len(Out.pages) = Len(In.pages)
      /\ \A p \in DOMAIN In.pages :
           LET vm == call.visibility_map
               Retained(a) == ~Mapped(a, vm, FALSE)
               kept == SelectSeq(AnnotList(In.pages[p]), Retained)
               out == AnnotList(Out.pages[p])
           IN  /\ Len(out) = Len(kept)
               /\ \A i \in DOMAIN out : ~Mapped(out[i], vm, FALSE)
               /\ \A i \in DOMAIN kept :
                    IF Mapped(kept[i], vm, TRUE)
                    THEN out[i].F = Some(0) /\ [out[i] EXCEPT !.F = kept[i].F] = kept[i]
                    ELSE out[i] = kept[i]

\* C3 witness: of a page's two widgets, name (mapped to false) is gone and
\* signature (mapped to true, flags 6 before) is left with flags 0.
C3_Witness ==
    /\ Returned("set_button_visibility")
    /\ MapsTo(call.visibility_map, NAME, FALSE)
    /\ MapsTo(call.visibility_map, SIGNATURE, TRUE)
    /\ \E p \in DOMAIN In.pages :
         /\ Len(AnnotList(In.pages[p])) = 2
         /\ NamedWidget(AnnotList(In.pages[p])[1], NAME)
         /\ AnnotList(In.pages[p])[2].F = Some(6)
         /\ Len(AnnotList(Out.pages[p])) = 1
         /\ NamedWidget(AnnotList(Out.pages[p])[1], SIGNATURE)
         /\ AnnotList(Out.pages[p])[1].F = Some(0)

----------------------------------------------------------------------------
----------------------------------------------------------------------------
(* C8: after each of the three functions, a document that has an AcroForm  *)
(* has NeedAppearances true in the output, and a document without one gets *)
(* none.                                                                   *)
C8_NeedAppearancesAfterEveryStage ==
    pc = "returned" =>
      /\ In.AcroForm # None =>
           Out.AcroForm # None /\ Out.AcroForm[1].NeedAppearances = Some("true")
      /\ In.AcroForm = None => Out.AcroForm = None

----------------------------------------------------------------------------
(* Spec: the files of an invocation. *)

Has(path) == path \in DOMAIN tmp

Template == tmp["/tmp/template.pdf"].doc

Filled == tmp["/tmp/filled.pdf"].doc

Locked == tmp["/tmp/locked.pdf"].doc

Visible == tmp["/tmp/visibility.pdf"].doc

Stored == OUTPUT_KEY \in DOMAIN bucket

\* The visibility map of the request (None when the body has none).
RequestMap == IF VISIBILITY_MAP \in DOMAIN body THEN Some(body[VISIBILITY_MAP]) ELSE None

----------------------------------------------------------------------------
(* C4 as claimed: a widget the Locker made read-only and the visibility map *)
(* maps to true has its read-only bit cleared once the Visibility           *)
(* Controller has run.                                                      *)
C4_ShowingUnlocks ==
    Has("/tmp/visibility.pdf") =>
      \A p \in DOMAIN Visible.pages : \A i \in DOMAIN AnnotList(Visible.pages[p]) :
        Mapped(AnnotList(Visible.pages[p])[i], RequestMap, TRUE)
          => ~ReadOnlyBit(AnnotList(Visible.pages[p])[i])

(* C4 as amended: such a widget comes out of the Visibility Controller with *)
(* its annotation flags (F) equal to 0 and with its field flags (Ff), and   *)
(* so the read-only bit the Locker set, as the Locker left them: showing a  *)
(* field does not un-lock it.                                               *)
C4_ShowingKeepsLock ==
    Has("/tmp/visibility.pdf") =>
      /\ \A p \in DOMAIN Visible.pages : \A i \in DOMAIN AnnotList(Visible.pages[p]) :
           LET b == AnnotList(Visible.pages[p])[i]
           IN  Mapped(b, RequestMap, TRUE) => b.F = Some(0) /\ ReadOnlyBit(b)
      /\ \A p \in DOMAIN Locked.pages :
           LET Shown(a) == Mapped(a, RequestMap, TRUE)
           IN  SelectSeq(AnnotList(Visible.pages[p]), Shown)
                 = [i \in DOMAIN SelectSeq(AnnotList(Locked.pages[p]), Shown) |->
                      [SelectSeq(AnnotList(Locked.pages[p]), Shown)[i] EXCEPT !.F = Some(0)]]

\* C4 witness: the template_path widget (flags Ff 4, F 2 in the template) was
\* locked to Ff 5 and then shown: F is 0 and Ff is still 5.
C4_Witness ==
    /\ Has("/tmp/visibility.pdf")
    /\ MapsTo(RequestMap, TEMPLATE_PATH, TRUE)
    /\ \E p \in DOMAIN Visible.pages : \E i \in DOMAIN AnnotList(Visible.pages[p]) :
         LET b == AnnotList(Visible.pages[p])[i]
         IN  /\ NamedWidget(b, TEMPLATE_PATH)
             /\ Template.pages[p].Annots[1][i].Ff = Some(4)
             /\ Locked.pages[p].Annots[1][i].Ff = Some(5)
             /\ Locked.pages[p].Annots[1][i].F = Some(2)
             /\ b.F = Some(0)
             /\ b.Ff = Some(5)

----------------------------------------------------------------------------
(* C6: lambda_handler runs Filler, then Locker on all fields, then          *)
(* Visibility Controller, each on the file the stage before wrote.  In the  *)
(* stored document the named widgets mapped to false are gone from their    *)
(* pages; of those that remain, every named widget has its read-only bit    *)
(* set (flags 0 or absent become 1) and every one whose name is a key of    *)
(* the body has V equal to the string form of that entry.                   *)
C6_PipelineOrderAndResult ==
    /\ Has("/tmp/filled.pdf") => Has("/tmp/template.pdf")
    /\ Has("/tmp/locked.pdf") => Has("/tmp/filled.pdf")
    /\ Has("/tmp/visibility.pdf") => Has("/tmp/locked.pdf")
    /\ Stored => Has("/tmp/visibility.pdf") /\ bucket[OUTPUT_KEY] = tmp["/tmp/visibility.pdf"]
    /\ pc = "done" => Stored
    /\ Stored =>
         LET final == bucket[OUTPUT_KEY].doc
         IN  /\ Len(final.pages) = Len(Template.pages)
             /\ \A p \in DOMAIN Template.pages :
                  LET Retained(a) == ~Mapped(a, RequestMap, FALSE)
                      kept == SelectSeq(AnnotList(Template.pages[p]), Retained)
                      out == AnnotList(final.pages[p])
                  IN  /\ Len(out) = Len(kept)
                      /\ \A i \in DOMAIN out : ~Mapped(out[i], RequestMap, FALSE)
                      /\ \A i \in DOMAIN kept : \A n \in Names :
                           NamedWidget(kept[i], n) =>
                             /\ NamedWidget(out[i], n)
                             /\ ReadOnlyBit(out[i])
                             /\ out[i].Ff[1] \div 2 = FlagsOf(kept[i]) \div 2
                             /\ n \in DOMAIN body => out[i].V = Some(Str(body[n]))
                             /\ n \notin DOMAIN body => out[i].V = kept[i].V

\* C6 witness: the scenario.  The template page held name and signature; with
\* data name = Alice and signature mapped to false the stored page holds only
\* name, with value Alice and flags 1.
C6_Witness ==
    /\ pc = "done"
    /\ Stored
    /\ MapsTo(RequestMap, SIGNATURE, FALSE)
    /\ \E p \in DOMAIN Template.pages :
         /\ Len(AnnotList(Template.pages[p])) = 2
         /\ NamedWidget(AnnotList(Template.pages[p])[1], SIGNATURE)
         /\ NamedWidget(AnnotList(Template.pages[p])[2], NAME)
         /\ FlagsOf(AnnotList(Template.pages[p])[2]) = 0
         /\ Len(AnnotList(bucket[OUTPUT_KEY].doc.pages[p])) = 1
         /\ NamedWidget(AnnotList(bucket[OUTPUT_KEY].doc.pages[p])[1], NAME)
         /\ AnnotList(bucket[OUTPUT_KEY].doc.pages[p])[1].V = Some("Alice")
         /\ AnnotList(bucket[OUTPUT_KEY].doc.pages[p])[1].Ff = Some(1)

----------------------------------------------------------------------------
(* C7: a request whose body has no visibility_map gets through the          *)
(* Visibility Controller without error whatever named widgets the template  *)
(* has: once the Locker has written its file the invocation does not fail,  *)
(* and the Visibility Controller's output keeps every annotation.           *)
C7_MapIsOptional ==
    (VISIBILITY_MAP \notin DOMAIN body /\ Has("/tmp/locked.pdf")) =>
      /\ pc # "failed"
      /\ Has("/tmp/visibility.pdf") => Visible.pages = Locked.pages
      /\ pc = "done" => response # None /\ response[1].statusCode = 200

----------------------------------------------------------------------------
(* C9: fail-fast, no partial output.  A failed invocation has stored no     *)
(* object, signed no URL, returned no response and takes no further step;   *)
(* an object is stored only after all three stages wrote their files, the   *)
(* URL is signed only after the store, and the response, status 200, is     *)
(* returned only after the signing.                                         *)
C9_FailFastNoPartialOutput ==
    /\ (error # None) <=> (pc = "failed")
    /\ pc = "failed" => ~Stored /\ url = None /\ response = None /\ ~ENABLED Next
    /\ Stored =>
         /\ Has("/tmp/filled.pdf") /\ Has("/tmp/locked.pdf") /\ Has("/tmp/visibility.pdf")
         /\ bucket[OUTPUT_KEY] = tmp["/tmp/visibility.pdf"]
    /\ url # None => Stored
    /\ response # None => url # None /\ response[1].statusCode = 200 /\ pc = "done"

\* C9 witness: the third stage failed after the first two had written their
\* files, and nothing was stored, signed or returned.
C9_Witness ==
    /\ pc = "failed"
    /\ error = Some("TypeError")
    /\ Has("/tmp/locked.pdf")
    /\ ~Has("/tmp/visibility.pdf")
    /\ ~Stored
    /\ url = None
    /\ response = None

----------------------------------------------------------------------------
(* C10: the Filler gets the whole body as its data map, so a template       *)
(* widget named template_path or visibility_map takes the string form of    *)
(* that body entry as V and AS when the body has the key.                   *)
C10_ControlKeysFillWidgets ==
    Has("/tmp/filled.pdf") =>
      \A p \in DOMAIN Template.pages : \A i \in DOMAIN AnnotList(Template.pages[p]) :
        \A k \in {TEMPLATE_PATH, VISIBILITY_MAP} :
          (NamedWidget(AnnotList(Template.pages[p])[i], k) /\ k \in DOMAIN body) =>
            LET b == AnnotList(Filled.pages[p])[i]
            IN  b.V = Some(Str(body[k])) /\ b.AS = Some(Str(body[k]))

\* C10 witness: the template_path widget holds the path of the request and
\* the visibility_map widget holds the map as Python prints it.
C10_Witness ==
    /\ Has("/tmp/filled.pdf")
    /\ \E p \in DOMAIN Filled.pages : \E i, j \in DOMAIN AnnotList(Filled.pages[p]) :
         /\ NamedWidget(AnnotList(Filled.pages[p])[i], TEMPLATE_PATH)
         /\ AnnotList(Filled.pages[p])[i].V = Some("input/test.pdf")
         /\ AnnotList(Template.pages[p])[i].V = Some("old")
         /\ NamedWidget(AnnotList(Filled.pages[p])[j], VISIBILITY_MAP)
         /\ AnnotList(Filled.pages[p])[j].V
              = Some("{'name': False, 'signature': True, 'visibility_map': True}")

====
